---- MODULE Spec2Model ----
(***************************************************************************)
(* Model of cranelift-equation-parser: parse = first_parse (tokenizer),    *)
(* then second_parse (token resolver with implicit multiplication), then   *)
(* printing.  third_parse is an empty stub that parse never calls.         *)
(*                                                                         *)
(* A text is a sequence of characters; every character is a one-character  *)
(* string.  Rust strings are UTF-8: first_parse numbers characters         *)
(* (chars().enumerate()) while second_parse slices by bytes, so the model  *)
(* keeps the byte width of every character.                                *)
(***************************************************************************)
EXTENDS Integers, Sequences, FiniteSets, TLC

\* ------------------------------------------------------------------ bounds

\* Longest equation text the model enumerates.
MaxLen == 4

\* The characters the enumerated texts are made of: a digit, the decimal
\* point, two ASCII letters (spelling the table's shortest function name,
\* "ln"), one two-byte letter, an opening and a closing parenthesis, an
\* operator, the comma, the bar and a character no token rule matches.  The
\* code treats the other grouping glyphs like these two, the other operators
\* like '*', and the space like a character that matches nothing.
Alphabet == {"1", ".", "l", "n", "é", "(", ")", "*", ",", "|", "#"}

\* --------------------------------------------------------------- characters

Digits == {"0", "1", "2", "3", "4", "5", "6", "7", "8", "9"}

AsciiLetters ==
    {"a", "b", "c", "d", "e", "f", "g", "h", "i", "j", "k", "l", "m",
     "n", "o", "p", "q", "r", "s", "t", "u", "v", "w", "x", "y", "z"}

\* Letters whose UTF-8 encoding takes two bytes.
TwoByteLetters == {"é"}

\* char::is_numeric, on the characters of the model.
IsNumeric(c) == c \in Digits

\* char::is_alphabetic, on the characters of the model.
IsAlphabetic(c) == c \in AsciiLetters \cup TwoByteLetters

\* char::len_utf8.
Utf8Len(c) == IF c \in TwoByteLetters THEN 2 ELSE 1

\* Number of bytes of the first k characters of text.
RECURSIVE ByteOffset(_, _)
ByteOffset(text, k) ==
    IF k = 0 THEN 0 ELSE ByteOffset(text, k - 1) + Utf8Len(text[k])

\* str::len: the length of the text in bytes.
StrLen(text) == ByteOffset(text, Len(text))

\* str::is_char_boundary.
IsCharBoundary(text, b) == \E k \in 0..Len(text) : ByteOffset(text, k) = b

\* The number of characters that end at byte offset b (a character boundary).
CharsBefore(text, b) == CHOOSE k \in 0..Len(text) : ByteOffset(text, k) = b

\* &equation[start..end]: indexing a str by a byte range panics when the range
\* is reversed, leaves the text or cuts a character.
SliceOk(text, start, end) ==
    start <= end /\ IsCharBoundary(text, start) /\ IsCharBoundary(text, end)

Slice(text, start, end) ==
    SubSeq(text, CharsBefore(text, start) + 1, CharsBefore(text, end))

\* ------------------------------------------------------------------ lexicon

OperatorOf(c) ==
    CASE c = "+" -> "Add"
      [] c = "-" -> "Sub"
      [] c = "*" -> "Mul"
      [] c = "/" -> "Div"
      [] c = "^" -> "Pow"
      [] OTHER -> "NoMatch"

ParenthesisOf(c) ==
    CASE c = "(" -> "Open"
      [] c = ")" -> "Close"
      [] c = "[" -> "OpenSquare"
      [] c = "]" -> "CloseSquare"
      [] c = "{" -> "OpenCurly"
      [] c = "}" -> "CloseCurly"
      [] OTHER -> "NoMatch"

\* The names FunctionType::from_str matches, each with its variant.
FunctionTable ==
    { <<<<"s", "i", "n">>, "Sin">>, <<<<"c", "o", "s">>, "Cos">>,
      <<<<"t", "a", "n">>, "Tan">>, <<<<"c", "o", "t">>, "Cot">>,
      <<<<"s", "e", "c">>, "Sec">>, <<<<"c", "s", "c">>, "Csc">>,
      <<<<"s", "i", "n", "h">>, "Sinh">>, <<<<"c", "o", "s", "h">>, "Cosh">>,
      <<<<"t", "a", "n", "h">>, "Tanh">>, <<<<"c", "o", "t", "h">>, "Coth">>,
      <<<<"s", "e", "c", "h">>, "Sech">>, <<<<"c", "s", "c", "h">>, "Csch">>,
      <<<<"l", "o", "g">>, "Log">>, <<<<"l", "n">>, "Ln">>,
      <<<<"s", "q", "r", "t">>, "Sqrt">>, <<<<"r", "o", "o", "t">>, "Root">>,
      <<<<"e", "x", "p">>, "Exp">>, <<<<"m", "o", "d">>, "Mod">>,
      <<<<"c", "e", "i", "l">>, "Ceil">>, <<<<"f", "l", "o", "o", "r">>, "Floor">>,
      <<<<"r", "o", "u", "n", "d">>, "Round">>, <<<<"a", "b", "s">>, "Abs">> }

FunctionNames == { e[1] : e \in FunctionTable }

\* FunctionType::from_str: the variant, or "UnknownFunction".
FunctionType_from_str(s) ==
    IF s \in FunctionNames
    THEN (CHOOSE e \in FunctionTable : e[1] = s)[2]
    ELSE "UnknownFunction"

\* ------------------------------------------------------------ float parsing

\* T::from_str_radix(s, 10) is str::parse of the float type.  Its grammar:
\*   Float  ::= Sign? ( 'inf' | 'infinity' | 'nan' | Number )
\*   Number ::= ( Digit+ | Digit+ '.' Digit* | Digit* '.' Digit+ ) Exp?
\*   Exp    ::= 'e' Sign? Digit+
Signs == {"+", "-"}

Unsigned(s) == IF Len(s) > 0 /\ s[1] \in Signs THEN Tail(s) ELSE s

SpecialFloats ==
    { <<"i", "n", "f">>, <<"i", "n", "f", "i", "n", "i", "t", "y">>,
      <<"n", "a", "n">> }

\* Position of the exponent marker in s, or 0.
ExpAt(s) ==
    IF \E i \in 1..Len(s) : s[i] \in {"e", "E"}
    THEN CHOOSE i \in 1..Len(s) :
            s[i] \in {"e", "E"} /\ \A j \in 1..(i - 1) : s[j] \notin {"e", "E"}
    ELSE 0

Mantissa(s) == IF ExpAt(s) = 0 THEN s ELSE SubSeq(s, 1, ExpAt(s) - 1)

Exponent(s) == IF ExpAt(s) = 0 THEN <<>> ELSE SubSeq(s, ExpAt(s) + 1, Len(s))

CountOf(s, set) == Cardinality({ i \in 1..Len(s) : s[i] \in set })

MantissaOk(m) ==
    /\ \A i \in 1..Len(m) : m[i] \in Digits \cup {"."}
    /\ CountOf(m, {"."}) <= 1
    /\ CountOf(m, Digits) >= 1

ExponentOk(e) ==
    /\ Len(Unsigned(e)) >= 1
    /\ \A i \in 1..Len(Unsigned(e)) : Unsigned(e)[i] \in Digits

NumberOk(b) ==
    /\ MantissaOk(Mantissa(b))
    /\ ExpAt(b) # 0 => ExponentOk(Exponent(b))

\* Whether str::parse accepts s as a float.
FloatOk(s) == Unsigned(s) \in SpecialFloats \/ NumberOk(Unsigned(s))

DigitValue(c) == CHOOSE d \in 0..9 : ToString(d) = c

\* The integer a sequence of digits and points spells, points skipped.
RECURSIVE DigitsValue(_)
DigitsValue(s) ==
    IF Len(s) = 0 THEN 0
    ELSE IF s[Len(s)] = "." THEN DigitsValue(SubSeq(s, 1, Len(s) - 1))
    ELSE 10 * DigitsValue(SubSeq(s, 1, Len(s) - 1)) + DigitValue(s[Len(s)])

\* Number of digits after the point.
FractionDigits(m) ==
    IF \E i \in 1..Len(m) : m[i] = "."
    THEN Len(m) - (CHOOSE i \in 1..Len(m) : m[i] = ".")
    ELSE 0

\* The decimal n * 10^(-k) in lowest form.
RECURSIVE Normal(_, _)
Normal(n, k) ==
    IF n = 0 THEN <<0, 0>>
    ELSE IF n % 10 = 0 THEN Normal(n \div 10, k - 1)
    ELSE <<n, k>>

\* The value of an accepted float: <<n, k, special>>, the number n * 10^(-k),
\* or the name of a special value.
FloatValue(s) ==
    LET b == Unsigned(s)
        neg == Len(s) > 0 /\ s[1] = "-"
        e == Exponent(b)
        ev == IF Len(e) > 0 /\ e[1] = "-" THEN 0 - DigitsValue(Unsigned(e))
              ELSE DigitsValue(Unsigned(e))
        nk == Normal(DigitsValue(Mantissa(b)), FractionDigits(Mantissa(b)) - ev)
    IN  IF b \in SpecialFloats
        THEN <<0, 0, IF b = <<"n", "a", "n">> THEN "nan" ELSE IF neg THEN "-inf" ELSE "inf">>
        ELSE <<IF neg THEN 0 - nk[1] ELSE nk[1], nk[2], "">>

\* ---------------------------------------------------------------- RawSyntax

\* enum RawSyntax; start and end are 0, v is "" where the variant has none.
Raw_ValueLit(s, e) == [t |-> "ValueLit", start |-> s, end |-> e, v |-> ""]
Raw_ValueIdent(s, e) == [t |-> "ValueIdent", start |-> s, end |-> e, v |-> ""]
Raw_Function(s, e) == [t |-> "Function", start |-> s, end |-> e, v |-> ""]
Raw_Operator(op) == [t |-> "Operator", start |-> 0, end |-> 0, v |-> op]
Raw_Parenthesis(p) == [t |-> "Parenthesis", start |-> 0, end |-> 0, v |-> p]
Raw_Comma == [t |-> "Comma", start |-> 0, end |-> 0, v |-> ""]
Raw_Abs == [t |-> "Abs", start |-> 0, end |-> 0, v |-> ""]

SpanKinds == {"ValueLit", "ValueIdent", "Function"}

\* ------------------------------------------------------------- first_parse

\* last_start_index: Option<(usize, bool)>; the bool is true for an alpha-run.
NoRun == [some |-> FALSE, start |-> 0, alpha |-> FALSE]
Run(s, a) == [some |-> TRUE, start |-> s, alpha |-> a]

\* Mutant of NumericArm: the new digit-run keeps the closed alpha-run's start.
NumericArm_keepStart(vec, last, index) ==
    IF ~last.some THEN [vec |-> vec, last |-> Run(index, FALSE)]
    ELSE IF ~last.alpha THEN [vec |-> vec, last |-> last]
    ELSE [vec |-> Append(vec, Raw_ValueIdent(last.start, index)),
          last |-> Run(last.start, FALSE)]

\* A digit or '.': closes an alpha-run as ValueIdent and opens a digit-run,
\* or continues the digit-run.
NumericArm(vec, last, index) ==
    IF ~last.some THEN [vec |-> vec, last |-> Run(index, FALSE)]
    ELSE IF ~last.alpha THEN [vec |-> vec, last |-> last]
    ELSE [vec |-> Append(vec, Raw_ValueIdent(last.start, index)),
          last |-> Run(index, FALSE)]

\* A letter: closes a digit-run as ValueLit and opens an alpha-run, or
\* continues the alpha-run.
AlphabeticArm(vec, last, index) ==
    IF ~last.some THEN [vec |-> vec, last |-> Run(index, TRUE)]
    ELSE IF last.alpha THEN [vec |-> vec, last |-> last]
    ELSE [vec |-> Append(vec, Raw_ValueLit(last.start, index)),
          last |-> Run(index, TRUE)]

\* Mutant of CloseRun: an alpha-run is closed as Function before any grouping
\* glyph, not only before '('.
CloseRun_anyParenthesis(vec, last, index, value) ==
    IF ~last.some THEN vec
    ELSE IF ~last.alpha THEN Append(vec, Raw_ValueLit(last.start, index))
    ELSE IF ParenthesisOf(value) # "NoMatch"
    THEN Append(vec, Raw_Function(last.start, index))
    ELSE Append(vec, Raw_ValueIdent(last.start, index))

\* Any other character closes the open run: an alpha-run as Function when the
\* character is '(' and as ValueIdent otherwise.
CloseRun(vec, last, index, value) ==
    IF ~last.some THEN vec
    ELSE IF ~last.alpha THEN Append(vec, Raw_ValueLit(last.start, index))
    ELSE IF value = "(" THEN Append(vec, Raw_Function(last.start, index))
    ELSE Append(vec, Raw_ValueIdent(last.start, index))

\* The token of a character that is not part of a run; a character that
\* matches nothing falls out of the loop body and leaves no token.
SingleChar(vec, value) ==
    IF value = " " THEN vec
    ELSE IF value = "," THEN Append(vec, Raw_Comma)
    ELSE IF value = "|" THEN Append(vec, Raw_Abs)
    ELSE IF ParenthesisOf(value) # "NoMatch"
    THEN Append(vec, Raw_Parenthesis(ParenthesisOf(value)))
    ELSE IF OperatorOf(value) # "NoMatch"
    THEN Append(vec, Raw_Operator(OperatorOf(value)))
    ELSE vec

\* One iteration of the loop over equation.chars().enumerate().
first_parse_step(vec, last, index, value) ==
    IF IsNumeric(value) \/ value = "." THEN NumericArm(vec, last, index)
    ELSE IF IsAlphabetic(value) THEN AlphabeticArm(vec, last, index)
    ELSE [vec |-> SingleChar(CloseRun(vec, last, index, value), value),
          last |-> NoRun]

\* After the loop: a run still open is closed at equation.len(), in bytes.
first_parse_end(vec, last, text) ==
    IF ~last.some THEN vec
    ELSE IF ~last.alpha THEN Append(vec, Raw_ValueLit(last.start, StrLen(text)))
    ELSE Append(vec, Raw_ValueIdent(last.start, StrLen(text)))

\* The scanner's state after the first k characters of text.
RECURSIVE Scan(_, _)
Scan(text, k) ==
    IF k = 0 THEN [vec |-> <<>>, last |-> NoRun]
    ELSE LET s == Scan(text, k - 1)
         IN  first_parse_step(s.vec, s.last, k - 1, text[k])

\* first_parse as a function of the text; it has no failing path.
first_parse(text) ==
    LET s == Scan(text, Len(text)) IN first_parse_end(s.vec, s.last, text)

\* ------------------------------------------------------------------ Syntax

\* enum Syntax<T>: n, k, v hold a literal's value, s an identifier's text,
\* v the operator, parenthesis or function of the other variants.
Syn_ValueLit(val) ==
    [t |-> "ValueLit", n |-> val[1], k |-> val[2], s |-> <<>>, v |-> val[3]]
Syn_ValueIdent(name) == [t |-> "ValueIdent", n |-> 0, k |-> 0, s |-> name, v |-> ""]
Syn_Operator(op) == [t |-> "Operator", n |-> 0, k |-> 0, s |-> <<>>, v |-> op]
Syn_Parenthesis(p) == [t |-> "Parenthesis", n |-> 0, k |-> 0, s |-> <<>>, v |-> p]
Syn_Function(f) == [t |-> "Function", n |-> 0, k |-> 0, s |-> <<>>, v |-> f]
Syn_Comma == [t |-> "Comma", n |-> 0, k |-> 0, s |-> <<>>, v |-> ""]
Syn_Abs == [t |-> "Abs", n |-> 0, k |-> 0, s |-> <<>>, v |-> ""]

\* ------------------------------------------------------------ second_parse

\* previous_token: Option<RawSyntax> = None.
NoToken == [t |-> "None", start |-> 0, end |-> 0, v |-> ""]

ClosingKinds == {"Close", "CloseSquare", "CloseCurly"}

\* Mutant of NoImplicitMul: the arm (Some(Operator), _) is missing.
NoImplicitMul_noOperatorArm(previous, token) ==
    \/ previous.t = "None"
    \/ previous.t = "Comma"
    \/ token.t = "Comma"
    \/ previous.t = "Abs"
    \/ token.t = "Abs"
    \/ previous.t = "Parenthesis"
    \/ token.t = "Operator"
    \/ previous.t = "Function"
    \/ (token.t = "Parenthesis" /\ token.v \in {"Close", "CloseSquare", "CloseCurly"})

\* The arms of the match on (previous_token, token) that insert nothing.
NoImplicitMul(previous, token) ==
    \/ previous.t = "None"
    \/ previous.t = "Operator"
    \/ previous.t = "Comma"
    \/ token.t = "Comma"
    \/ previous.t = "Abs"
    \/ token.t = "Abs"
    \/ previous.t = "Parenthesis"
    \/ token.t = "Operator"
    \/ previous.t = "Function"
    \/ (token.t = "Parenthesis" /\ token.v \in ClosingKinds)

\* The implicit-multiplication match: the vector after it.
ImplicitMul(vec, previous, token, index, len) ==
    IF NoImplicitMul(previous, token) THEN vec
    ELSE IF index # len - 1 THEN Append(vec, Syn_Operator("Mul"))
    ELSE vec

\* The match on the token: the resolved token, an error returned, or the
\* panic of a str index.
Resolve(token, equation) ==
    IF token.t \in SpanKinds /\ ~SliceOk(equation, token.start, token.end)
    THEN [kind |-> "Panic", tok |-> Syn_Comma, err |-> "str index"]
    ELSE IF token.t = "ValueLit"
    THEN IF FloatOk(Slice(equation, token.start, token.end))
         THEN [kind |-> "Ok", err |-> "",
               tok |-> Syn_ValueLit(FloatValue(Slice(equation, token.start, token.end)))]
         ELSE [kind |-> "Err", tok |-> Syn_Comma, err |-> "LiteralParseError"]
    ELSE IF token.t = "ValueIdent"
    THEN [kind |-> "Ok", err |-> "",
          tok |-> Syn_ValueIdent(Slice(equation, token.start, token.end))]
    ELSE IF token.t = "Operator"
    THEN [kind |-> "Ok", err |-> "", tok |-> Syn_Operator(token.v)]
    ELSE IF token.t = "Parenthesis"
    THEN [kind |-> "Ok", err |-> "", tok |-> Syn_Parenthesis(token.v)]
    ELSE IF token.t = "Function"
    THEN IF FunctionType_from_str(Slice(equation, token.start, token.end))
                # "UnknownFunction"
         THEN [kind |-> "Ok", err |-> "",
               tok |-> Syn_Function(
                   FunctionType_from_str(Slice(equation, token.start, token.end)))]
         ELSE [kind |-> "Err", tok |-> Syn_Comma, err |-> "UnknownFunction"]
    ELSE IF token.t = "Comma"
    THEN [kind |-> "Ok", err |-> "", tok |-> Syn_Comma]
    ELSE [kind |-> "Ok", err |-> "", tok |-> Syn_Abs]

\* Mutant of second_parse_step: a token that fails to resolve is skipped and
\* the loop goes on.
second_parse_step_skipError(vec, previous, index, ast, equation) ==
    LET token == ast[index + 1]
        v == ImplicitMul(vec, previous, token, index, Len(ast))
        r == Resolve(token, equation)
    IN  IF r.kind = "Ok"
        THEN [kind |-> "Ok", vec |-> Append(v, r.tok), previous |-> token, err |-> ""]
        ELSE IF r.kind = "Err"
        THEN [kind |-> "Ok", vec |-> Append(v, r.tok), previous |-> token, err |-> ""]
        ELSE [kind |-> r.kind, vec |-> v, previous |-> previous, err |-> r.err]

\* One iteration of the loop over ast.iter().enumerate(): kind "Ok" when the
\* loop goes on, "Err" when the function returns an error, "Panic" when it
\* panics.
second_parse_step(vec, previous, index, ast, equation) ==
    LET token == ast[index + 1]
        v == ImplicitMul(vec, previous, token, index, Len(ast))
        r == Resolve(token, equation)
    IN  IF r.kind = "Ok"
        THEN [kind |-> "Ok", vec |-> Append(v, r.tok), previous |-> token, err |-> ""]
        ELSE [kind |-> r.kind, vec |-> v, previous |-> previous, err |-> r.err]

\* What second_parse hands back: Ok(vec), Err(err) or a panic.
NoResult == [kind |-> "None", val |-> <<>>, err |-> ""]
ResultOk(vec) == [kind |-> "Ok", val |-> vec, err |-> ""]
ResultFail(kind, err) == [kind |-> kind, val |-> <<>>, err |-> err]

\* The loop's state before iteration k.
RECURSIVE Resolved(_, _, _)
Resolved(ast, equation, k) ==
    IF k = 0 THEN [kind |-> "Ok", vec |-> <<>>, previous |-> NoToken, err |-> ""]
    ELSE LET s == Resolved(ast, equation, k - 1)
         IN  IF s.kind # "Ok" THEN s
             ELSE second_parse_step(s.vec, s.previous, k - 1, ast, equation)

\* second_parse as a function of the raw tokens and the text.
second_parse(ast, equation) ==
    LET s == Resolved(ast, equation, Len(ast))
    IN  IF s.kind = "Ok" THEN ResultOk(s.vec) ELSE ResultFail(s.kind, s.err)

\* -------------------------------------------------------------------- state

VARIABLES
    equation,          \* parse's argument
    pc,                \* where parse is: "first_parse", "second_parse",
                       \* "returned" (normal return), "panicked"
    index,             \* first_parse: characters scanned so far
    vec,               \* first_parse: the tokens pushed so far
    last_start_index,  \* first_parse: the open run
    src,               \* for each token of vec, the index of its first character
    first,             \* parse: what first_parse returned
    index2,            \* second_parse: raw tokens resolved so far
    vec2,              \* second_parse: the tokens pushed so far
    previous_token,    \* second_parse: the previous raw token
    synth,             \* positions of vec2 that hold an inserted Mul
    second             \* parse: what second_parse handed back

vars ==
    <<equation, pc, index, vec, last_start_index, src, first, index2, vec2,
      previous_token, synth, second>>

Texts == UNION { [1..n -> Alphabet] : n \in 0..MaxLen }

Init ==
    /\ equation \in Texts
    /\ pc = "first_parse"
    /\ index = 0
    /\ vec = <<>>
    /\ last_start_index = NoRun
    /\ src = <<>>
    /\ first = <<>>
    /\ index2 = 0
    /\ vec2 = <<>>
    /\ previous_token = NoToken
    /\ synth = {}
    /\ second = NoResult

\* The first characters of the tokens an iteration pushed: a closed run began
\* at the run's start, a single-character token is the character itself.
Sources(old, new, last, at) ==
    [i \in 1..(Len(new) - Len(old)) |->
        IF new[Len(old) + i].t \in SpanKinds THEN last.start ELSE at]

\* first_parse, one character.
FirstLoop ==
    /\ pc = "first_parse"
    /\ index < Len(equation)
    /\ LET r == first_parse_step(vec, last_start_index, index, equation[index + 1])
       IN  /\ vec' = r.vec
           /\ last_start_index' = r.last
           /\ src' = src \o Sources(vec, r.vec, last_start_index, index)
    /\ index' = index + 1
    /\ UNCHANGED <<equation, pc, first, index2, vec2, previous_token, synth, second>>

\* first_parse, after the loop: closes the open run and returns Ok(vec), which
\* parse unwraps.
FirstEnd ==
    /\ pc = "first_parse"
    /\ index = Len(equation)
    /\ LET v == first_parse_end(vec, last_start_index, equation)
       IN  /\ vec' = v
           /\ first' = v
           /\ src' = src \o Sources(vec, v, last_start_index, index)
    /\ last_start_index' = NoRun
    /\ pc' = "second_parse"
    /\ UNCHANGED <<equation, index, index2, vec2, previous_token, synth, second>>

\* second_parse, one raw token.  An error returned makes parse's unwrap panic.
SecondLoop ==
    /\ pc = "second_parse"
    /\ index2 < Len(first)
    /\ LET r == second_parse_step(vec2, previous_token, index2, first, equation)
           mul == Len(r.vec) - Len(vec2) = (IF r.kind = "Ok" THEN 2 ELSE 1)
       IN  /\ vec2' = r.vec
           /\ previous_token' = r.previous
           /\ synth' = IF mul THEN synth \cup {Len(vec2) + 1} ELSE synth
           /\ IF r.kind = "Ok"
              THEN /\ index2' = index2 + 1
                   /\ UNCHANGED <<pc, second>>
              ELSE /\ second' = ResultFail(r.kind, r.err)
                   /\ pc' = "panicked"
                   /\ UNCHANGED index2
    /\ UNCHANGED <<equation, index, vec, last_start_index, src, first>>

\* second_parse, after the loop: returns Ok(vec); parse prints the tokens and
\* returns.
SecondEnd ==
    /\ pc = "second_parse"
    /\ index2 = Len(first)
    /\ second' = ResultOk(vec2)
    /\ pc' = "returned"
    /\ UNCHANGED <<equation, index, vec, last_start_index, src, first, index2,
                   vec2, previous_token, synth>>

Next == FirstLoop \/ FirstEnd \/ SecondLoop \/ SecondEnd

Spec == Init /\ [][Next]_vars

\* ================================================================== claims

Min(a, b) == IF a < b THEN a ELSE b

OpeningKinds == {"Open", "OpenSquare", "OpenCurly"}

\* parse has left second_parse, by its return or by a panic.
SecondDone == pc \in {"returned", "panicked"}

\* ---------------------------------------------------------------------- C1

\* The characters some token rule names: digits, '.', letters, whitespace,
\* ',', '|', the six grouping glyphs and the five operators.
Recognized(c) ==
    \/ IsNumeric(c) \/ c = "." \/ IsAlphabetic(c) \/ c = " "
    \/ c \in {",", "|"}
    \/ ParenthesisOf(c) # "NoMatch"
    \/ OperatorOf(c) # "NoMatch"

HasUnrecognized(text) == \E i \in 1..Len(text) : ~Recognized(text[i])

\* C1: a text with a character no token rule matches makes first_parse fail
\* (NoMatch) and hand back no tokens: parse never gets as far as second_parse
\* on such a text, it stops at the unwrap of first_parse's result.
C1_UnrecognizedCharacterFails ==
    HasUnrecognized(equation) =>
        \/ pc = "first_parse"
        \/ (pc = "panicked" /\ second.kind = "None")

\* ---------------------------------------------------------------------- C2

\* The raw tokens j and j+1 are a literal or identifier directly followed, in
\* the text, by a literal, an identifier, a function call or an opener.
Juxtaposed(j) ==
    /\ first[j].t \in {"ValueLit", "ValueIdent"}
    /\ \/ first[j + 1].t \in SpanKinds
       \/ (first[j + 1].t = "Parenthesis" /\ first[j + 1].v \in OpeningKinds)
    /\ first[j].end = src[j + 1]

\* The text with c written before the character of index at (from 0).
InsertAt(text, at, c) ==
    SubSeq(text, 1, at) \o <<c>> \o SubSeq(text, at + 1, Len(text))

\* C2: wherever a literal or identifier is directly followed by a literal, an
\* identifier, a function call or an opener, the resolved stream is the one
\* of the same text with '*' written between the two.
C2_ImplicitMulAsExplicit ==
    SecondDone =>
        \A j \in 1..(Len(first) - 1) :
            Juxtaposed(j) =>
                LET explicit == InsertAt(equation, src[j + 1], "*")
                IN  second = second_parse(first_parse(explicit), explicit)

\* ---------------------------------------------------------------------- C3

\* Number of bars among the first k raw tokens.
BarsBefore(k) == Cardinality({ i \in 1..k : first[i].t = "Abs" })

\* A bar closes when an odd number of bars came before it, and opens otherwise.
ClosingBar(k) == first[k].t = "Abs" /\ BarsBefore(k - 1) % 2 = 1
OpeningBar(k) == first[k].t = "Abs" /\ BarsBefore(k - 1) % 2 = 0

\* C3: when the raw token just resolved is a literal, identifier, function
\* call, opener or opening bar and the one before it is a closer or a closing
\* bar, an inserted Mul stands right before the token just pushed.
C3_MulAfterCloser ==
    (pc = "second_parse" /\ index2 >= 2) =>
        LET previous == first[index2 - 1]
            token == first[index2]
        IN  ( /\ \/ (previous.t = "Parenthesis" /\ previous.v \in ClosingKinds)
                 \/ ClosingBar(index2 - 1)
              /\ \/ token.t \in SpanKinds
                 \/ (token.t = "Parenthesis" /\ token.v \in OpeningKinds)
                 \/ OpeningBar(index2) )
            => (Len(vec2) - 1) \in synth

\* ---------------------------------------------------------------------- C4

Separators == {"Operator", "Comma"}

\* C4: an inserted Mul is never the first or the last element of the resolved
\* vector, and neither of its neighbours is an operator or a comma; this holds
\* after every iteration of second_parse and of the vector it returns.
C4_SyntheticMulPlacement ==
    pc # "panicked" =>
        /\ second.kind = "Ok" => second.val = vec2
        /\ \A p \in synth :
            /\ 1 < p /\ p < Len(vec2)
            /\ vec2[p] = Syn_Operator("Mul")
            /\ vec2[p - 1].t \notin Separators
            /\ vec2[p + 1].t \notin Separators

\* second_parse returned a vector with an inserted Mul and with an explicit
\* operator or a comma.
C4_Witness ==
    /\ pc = "returned"
    /\ synth # {}
    /\ \E i \in 1..Len(second.val) :
           i \notin synth /\ second.val[i].t \in Separators

\* ---------------------------------------------------------------------- C5

Opener(kind) ==
    CASE kind = "Close" -> "Open"
      [] kind = "CloseSquare" -> "OpenSquare"
      [] kind = "CloseCurly" -> "OpenCurly"

\* The openers still pending after the first k characters of text, or
\* <<"unmatched">> once a closer met no opener of its kind.
RECURSIVE Pending(_, _)
Pending(text, k) ==
    IF k = 0 THEN <<>>
    ELSE LET st == Pending(text, k - 1)
             g == ParenthesisOf(text[k])
         IN  IF st = <<"unmatched">> THEN st
             ELSE IF g \in OpeningKinds THEN Append(st, g)
             ELSE IF g \in ClosingKinds
             THEN IF Len(st) > 0 /\ st[Len(st)] = Opener(g)
                  THEN SubSeq(st, 1, Len(st) - 1)
                  ELSE <<"unmatched">>
             ELSE st

Balanced(text) == Pending(text, Len(text)) = <<>>

\* C5: parse returns normally only on a text whose grouping symbols match.
C5_UnbalancedNeverReturns == pc = "returned" => Balanced(equation)

\* ---------------------------------------------------------------------- C6

BadSlice(tok) == tok.t \in SpanKinds /\ ~SliceOk(equation, tok.start, tok.end)

UnknownName(tok) ==
    /\ tok.t = "Function"
    /\ SliceOk(equation, tok.start, tok.end)
    /\ Slice(equation, tok.start, tok.end) \notin FunctionNames

BadLiteral(tok) ==
    /\ tok.t = "ValueLit"
    /\ SliceOk(equation, tok.start, tok.end)
    /\ ~FloatOk(Slice(equation, tok.start, tok.end))

\* The raw tokens that do not resolve.
Failing ==
    { j \in 1..Len(first) :
        BadSlice(first[j]) \/ UnknownName(first[j]) \/ BadLiteral(first[j]) }

FirstFailing == CHOOSE j \in Failing : \A i \in Failing : j <= i

LitRun(tok) == SubSeq(equation, tok.start + 1, Min(tok.end, Len(equation)))

\* C7: every ValueLit raw token spans digits and at most one '.', and
\* second_parse never returns the literal error.
C7_LiteralsWellFormed ==
    /\ \A j \in 1..Len(vec) :
           vec[j].t = "ValueLit" =>
               /\ \A i \in 1..Len(LitRun(vec[j])) :
                      LitRun(vec[j])[i] \in Digits \cup {"."}
               /\ CountOf(LitRun(vec[j]), {"."}) <= 1
    /\ second.err # "LiteralParseError"

\* ---------------------------------------------------------------------- C8

SpansOrdered ==
    /\ Len(src) = Len(vec)
    /\ \A i \in 1..Len(vec) :
           vec[i].t \in SpanKinds =>
               vec[i].start < vec[i].end /\ src[i] = vec[i].start
    /\ \A i, j \in 1..Len(vec) :
           i < j =>
               /\ src[i] < src[j]
               /\ (vec[i].t \in SpanKinds /\ vec[j].t \in SpanKinds)
                      => vec[i].end <= vec[j].start
    /\ pc # "first_parse" => first = vec

TokensKept ==
    /\ Len(vec') >= Len(vec)
    /\ SubSeq(vec', 1, Len(vec)) = vec
    /\ pc # "first_parse" => first' = first

\* C8: after every step the spans of the emitted tokens are non-empty,
\* disjoint and increasing, the tokens stand in the order of their first
\* characters, and a step only ever appends to the tokens emitted before it.
C8_SpansOrderedAndKept == []SpansOrdered /\ [][TokensKept]_vars

\* first_parse returned at least two span tokens and a single-character token.
C8_Witness ==
    /\ pc = "second_parse"
    /\ Cardinality({ i \in 1..Len(first) : first[i].t \in SpanKinds }) >= 2
    /\ \E i \in 1..Len(first) : first[i].t \notin SpanKinds

\* ---------------------------------------------------------------------- C9

\* C9: a run of letters is emitted as Function exactly when the character that
\* ends it is '(' (as ValueIdent otherwise), so a Function raw token is always
\* followed by the Open token, and in the returned vector a Function is
\* followed by Parenthesis(Open), which is not preceded by an inserted Mul.
C9_FunctionThenOpen ==
    /\ \A i \in 1..Len(vec) :
           /\ vec[i].t = "Function" =>
                  /\ equation[vec[i].end + 1] = "("
                  /\ i < Len(vec)
                  /\ vec[i + 1] = Raw_Parenthesis("Open")
           /\ (vec[i].t = "ValueIdent" /\ vec[i].end < Len(equation)) =>
                  equation[vec[i].end + 1] # "("
    /\ second.kind = "Ok" =>
           \A p \in 1..Len(second.val) :
               second.val[p].t = "Function" =>
                   /\ p < Len(second.val)
                   /\ second.val[p + 1] = Syn_Parenthesis("Open")
                   /\ (p + 1) \notin synth

\* second_parse returned a vector in which a Function follows an inserted Mul.
C9_Witness ==
    /\ pc = "returned"
    /\ \E p \in 2..Len(second.val) :
           second.val[p].t = "Function" /\ (p - 1) \in synth

\* --------------------------------------------------------------------- C10

\* The end (a character count) of the longest run of one class, letters or
\* digits and '.', that begins at character index s (from 0).
RunEnd(text, s) ==
    LET alpha == IsAlphabetic(text[s + 1])
        same(c) == IF alpha THEN IsAlphabetic(c) ELSE IsNumeric(c) \/ c = "."
    IN  CHOOSE e \in (s + 1)..Len(text) :
            /\ \A i \in (s + 1)..e : same(text[i])
            /\ e < Len(text) => ~same(text[e + 1])

\* C10: the slice second_parse takes for a span token is within the text, on
\* character boundaries, and is exactly the run first_parse scanned.
C10_SliceIsTheRun ==
    pc # "first_parse" =>
        \A i \in 1..Len(first) :
            first[i].t \in SpanKinds =>
                /\ SliceOk(equation, first[i].start, first[i].end)
                /\ Slice(equation, first[i].start, first[i].end)
                       = SubSeq(equation, src[i] + 1, RunEnd(equation, src[i]))

====
